---- MODULE Spec2Model ----
(***************************************************************************)
(* Model of the document-indexing and question-answering pipeline of      *)
(* src/app.py (a Streamlit script).  One step of the model is one run of  *)
(* main() triggered by one widget event, or one step of the environment   *)
(* (a new session, a file placed under data/pdfs, a damaged index file).  *)
(*                                                                         *)
(* Two further parts have specifications of their own: the text splitter  *)
(* that process_pdf_from_file configures, applied to texts character by   *)
(* character (SpecSplitter), and the backup script                         *)
(* src/scripts/backup-vector-store.py over an S3 bucket (SpecBackup).     *)
(***************************************************************************)
EXTENDS Integers, Sequences, FiniteSets, TLC

VARIABLES
    OPENAI_API_KEY,   \* module constant read from the environment at process start
    session_state,    \* st.session_state: a function from the keys present to values
    disk,             \* the index directory VECTOR_STORE_PATH
    pdfs,             \* the tree under PDF_STORAGE_DIR: path -> content
    last,             \* what the last run of main() did (observable outcome)
    text_splitter,    \* the text given to the splitter and the chunks it returned
    bucket,           \* the S3 bucket of the backup script: key -> body
    now,              \* the clock the backup script reads (datetime.now())
    local,            \* the local directories the backup script reads and writes
    result            \* what the last call of the backup script returned

appVars == <<OPENAI_API_KEY, session_state, disk, pdfs, last>>
splitterVars == <<text_splitter>>
backupVars == <<bucket, now, local, result>>
notApp == <<splitterVars, backupVars>>
vars == <<appVars, splitterVars, backupVars>>

----------------------------------------------------------------------------
(* Bounds of the model *)
MaxIndex == 2      \* chunks an index may hold
MaxBatch == 2      \* files in one upload
MaxChat  == 2      \* turns kept in chat_history

(* Program constants *)
CHUNK_SIZE      == 1000
RETRIEVAL_TOP_K == 4

----------------------------------------------------------------------------
(* Python values *)
None == "None"

Range(s) == {s[i] : i \in 1..Len(s)}

\* A FAISS store object, or None, in one shape so that values compare.
NoStore == [tag |-> "None", chunks |-> <<>>]
Store(chunks) == [tag |-> "FAISS", chunks |-> chunks]

\* Python truthiness of the values the script tests with `if x:` / `if not x:`
TruthyStr(s) == s # None /\ s # ""
TruthyStore(v) == v.tag # "None"

\* 'k' in st.session_state
Has(k) == k \in DOMAIN session_state
HasIn(ss, k) == k \in DOMAIN ss

\* st.session_state.k = v
Put(ss, k, v) == [x \in (DOMAIN ss) \cup {k} |-> IF x = k THEN v ELSE ss[x]]

EmptySession == [x \in {} |-> None]

----------------------------------------------------------------------------
(* The files of the model *)
PDF_STORAGE_DIR == "data/pdfs"
Names == {"a.pdf", "b.pdf"}
RootPath(name) == <<PDF_STORAGE_DIR, name>>
SubPath(name) == <<"data/pdfs/sub", name>>
Paths == {RootPath("a.pdf"), RootPath("b.pdf"), SubPath("a.pdf")}
Basename(path) == path[2]

\* Contents: a document is the sequence of its pages' texts.
Contents == {"one", "two"}
Absent == "absent"
LongContent == "long"
Pages(content) ==
    IF content = "one" THEN <<"p">>
    ELSE IF content = LongContent THEN <<"r">>
    ELSE <<"q1", "q2">>
TextLen(text) == IF text = "p" THEN 400 ELSE IF text = "r" THEN 4400 ELSE 300

\* The files a user uploads, and the files found placed in a nested folder.
UploadedFiles == {[name |-> "a.pdf", content |-> "one"], [name |-> "b.pdf", content |-> "one"]}
LocalFiles == {[path |-> SubPath("a.pdf"), content |-> "two"]}

----------------------------------------------------------------------------
(* Document Ingestor: process_pdf_from_file and what it calls *)
CHUNK_OVERLAP == 200

\* PyPDFLoader(pdf_path).load(): one Document per page, page numbers from 0.
LoaderLoad(content) ==
    [p \in 1..Len(Pages(content)) |->
        [page |-> p - 1, text |-> Pages(content)[p]]]

\* RecursiveCharacterTextSplitter.split_text on a text without separators:
\* windows of at most CHUNK_SIZE characters, each starting CHUNK_OVERLAP
\* characters before the end of the previous one.  A text no longer than
\* CHUNK_SIZE is one piece; an empty text gives no piece.
RECURSIVE Windows(_, _)
Windows(from, len) ==
    IF len - from <= CHUNK_SIZE
    THEN <<[from |-> from, to |-> len]>>
    ELSE <<[from |-> from, to |-> from + CHUNK_SIZE]>>
         \o Windows(from + CHUNK_SIZE - CHUNK_OVERLAP, len)

SplitText(text) == IF TextLen(text) = 0 THEN <<>> ELSE Windows(0, TextLen(text))

\* Mutant: only the first page of a document is split.
SplitDocumentsFirstPage(documents) ==
    IF documents = <<>> THEN <<>>
    ELSE LET d == Head(documents)
             w == SplitText(d.text)
         IN [i \in 1..Len(w) |->
                [page |-> d.page,
                 page_content |-> [text |-> d.text, from |-> w[i].from, to |-> w[i].to]]]

\* text_splitter.split_documents(documents): every page is split on its own;
\* a chunk keeps the metadata of its page.
RECURSIVE SplitDocuments(_)
SplitDocuments(documents) ==
    IF documents = <<>> THEN <<>>
    ELSE LET d == Head(documents)
             w == SplitText(d.text)
         IN [i \in 1..Len(w) |->
                [page |-> d.page,
                 page_content |-> [text |-> d.text, from |-> w[i].from, to |-> w[i].to]]]
            \o SplitDocuments(Tail(documents))

\* the "Add metadata" loop: source, zero-based chunk_id, full_path
AddMetadata(chunks, pdf_path) ==
    [i \in 1..Len(chunks) |->
        [source |-> Basename(pdf_path),
         chunk_id |-> i - 1,
         full_path |-> pdf_path,
         page |-> chunks[i].page,
         page_content |-> chunks[i].page_content]]

\* The chunks process_pdf_from_file builds for the file at pdf_path.
ChunksOf(pdf_path, content) ==
    AddMetadata(SplitDocuments(LoaderLoad(content)), pdf_path)

\* Where one call of the ingestor may fail (an exception of a library call),
\* or the process may die.
\*   "insert" a call before the index is touched raises (the loader, the
\*            splitter, the embedding, from_documents / add_documents)
\*   "save"   save_local raises, nothing written
\*   "crash"  the process dies after the insert and before save_local
IngestModes == {"ok", "insert", "save", "crash"}

\* Mutant: a new index is built from the document every time.
InsertChunksAlwaysNew(vector_store, chunks) == Store(chunks)

\* lines 148-152: a new index from the chunks, or the chunks appended to the
\* index object the caller holds (in place).
InsertChunks(vector_store, chunks) ==
    IF vector_store.tag = "None"
    THEN Store(chunks)
    ELSE Store(vector_store.chunks \o chunks)

\* line 155: vector_store.save_local(VECTOR_STORE_PATH)
SaveLocal(vector_store) == [tag |-> "index", chunks |-> vector_store.chunks]

\* With no embedding runtime (its initialisation failed and left None in
\* the session) every embedding call raises: the insert fails.
EffectiveMode(mode, embeddings) == IF embeddings = None THEN "insert" ELSE mode

\* lines 128-161, what the call hands back as the index: the caller's own
\* when the call failed before the insert, else the index with the chunks.
ReturnedStore(mode, vector_store, inserted) ==
    IF mode = "insert" THEN vector_store ELSE inserted

\* Mutant: the index is written as part of the insert, before line 155.
IndexDirEager(mode, dsk, inserted) ==
    IF mode \in {"ok", "crash", "save"} THEN SaveLocal(inserted) ELSE dsk

\* lines 154-155: save_local is the last step, reached only when nothing
\* before it raised; it is the only write to the index directory.
IndexDirAfter(mode, dsk, inserted) ==
    IF mode = "ok" THEN SaveLocal(inserted) ELSE dsk

\* process_pdf_from_file(pdf_path, vector_store): the returned pair, the
\* index directory afterwards, and whether the process died inside.
process_pdf_from_file(pdf_path, vector_store, embeddings, dsk, files, mode) ==
    LET m        == EffectiveMode(mode, embeddings)
        chunks   == ChunksOf(pdf_path, files[pdf_path])
        inserted == InsertChunks(vector_store, chunks)
    IN  [success |-> m = "ok",
         vector_store |-> ReturnedStore(m, vector_store, inserted),
         disk |-> IndexDirAfter(m, dsk, inserted),
         crashed |-> m = "crash"]

\* process_pdf(pdf_file, vector_store): the upload is written under
\* PDF_STORAGE_DIR, then ingested from there.  "write" is a failure to write.
UploadModes == IngestModes \cup {"write"}

process_pdf(pdf_file, vector_store, embeddings, dsk, files, mode) ==
    LET pdf_path == RootPath(pdf_file.name)
        written  == [files EXCEPT ![pdf_path] = pdf_file.content]
    IN  IF mode = "write"
        THEN [success |-> FALSE, vector_store |-> vector_store, disk |-> dsk,
              crashed |-> FALSE, pdfs |-> files]
        ELSE LET r == process_pdf_from_file(pdf_path, vector_store, embeddings, dsk, written, mode)
             IN [success |-> r.success, vector_store |-> r.vector_store, disk |-> r.disk,
                 crashed |-> r.crashed, pdfs |-> written]

----------------------------------------------------------------------------
(* Session initialisation: lines 270-293 of main *)

\* initialize_embeddings(): the runtime, or None after a reported error.
initialize_embeddings(ok) ==
    IF ok THEN [value |-> "embeddings", raised |-> FALSE, errors |-> {}]
    ELSE [value |-> None, raised |-> FALSE, errors |-> {"Error initializing embeddings"}]

\* index_path.exists(): index.faiss is there, readable or not.
IndexFileExists(dsk) == dsk.tag # "absent"

\* Mutant: a failing load is not caught.
initialize_vector_store_uncaught(dsk, loadOk) ==
    IF IndexFileExists(dsk)
    THEN IF dsk.tag = "index" /\ loadOk
         THEN [value |-> Store(dsk.chunks), raised |-> FALSE, errors |-> {}]
         ELSE [value |-> NoStore, raised |-> TRUE, errors |-> {}]
    ELSE [value |-> NoStore, raised |-> FALSE, errors |-> {}]

\* initialize_vector_store(embeddings): loadOk is whether FAISS.load_local
\* gets through its I/O; a damaged index never loads.
initialize_vector_store(dsk, loadOk) ==
    IF IndexFileExists(dsk)
    THEN IF dsk.tag = "index" /\ loadOk
         THEN [value |-> Store(dsk.chunks), raised |-> FALSE, errors |-> {}]
         ELSE [value |-> NoStore, raised |-> FALSE,
               errors |-> {"Error initializing vector store"}]
    ELSE [value |-> NoStore, raised |-> FALSE, errors |-> {}]

\* initialize_qa_chain(vector_store): a chain whose retriever reads the
\* store, or None after a reported error.
initialize_qa_chain(vector_store, ok) ==
    IF ok /\ vector_store.tag # "None"
    THEN [value |-> "chain", raised |-> FALSE, errors |-> {}]
    ELSE [value |-> None, raised |-> FALSE, errors |-> {"Error initializing QA chain"}]

\* Mutant: only a key that is not set at all stops the run.
KeyCheckNotNone(key) == key # None

\* lines 271-274: the run goes on only with a key.
KeyCheckPasses(key) == TruthyStr(key)

\* The nondeterminism of one initialisation: which library calls get through.
InitInputs == [emb : BOOLEAN, load : BOOLEAN, chain : BOOLEAN]

\* lines 277-293, key by key.
InitEmbeddings(ss, in) ==
    IF HasIn(ss, "embeddings") THEN ss
    ELSE Put(ss, "embeddings", initialize_embeddings(in.emb).value)

InitVectorStore(ss, dsk, in) ==
    IF HasIn(ss, "vector_store") THEN ss
    ELSE Put(ss, "vector_store", initialize_vector_store(dsk, in.load).value)

InitQaChain(ss, in) ==
    IF HasIn(ss, "qa_chain") THEN ss
    ELSE IF TruthyStore(ss.vector_store)
         THEN Put(ss, "qa_chain", initialize_qa_chain(ss.vector_store, in.chain).value)
         ELSE ss

InitLists(ss) ==
    LET s1 == IF HasIn(ss, "processed_files") THEN ss ELSE Put(ss, "processed_files", <<>>)
    IN  IF HasIn(s1, "chat_history") THEN s1 ELSE Put(s1, "chat_history", <<>>)

\* The whole of lines 277-293: the session afterwards, the errors shown,
\* and whether an exception left the run (then the keys after it stay unset).
SessionInit(ss, dsk, in) ==
    LET s1 == InitEmbeddings(ss, in)
        e1 == IF HasIn(ss, "embeddings") THEN {} ELSE initialize_embeddings(in.emb).errors
        vs == initialize_vector_store(dsk, in.load)
        s2 == InitVectorStore(s1, dsk, in)
        e2 == IF HasIn(ss, "vector_store") THEN {} ELSE vs.errors
        s3 == InitQaChain(s2, in)
        e3 == IF HasIn(s2, "qa_chain") \/ ~TruthyStore(s2.vector_store) THEN {}
              ELSE initialize_qa_chain(s2.vector_store, in.chain).errors
    IN  IF ~HasIn(ss, "vector_store") /\ vs.raised
        THEN [ss |-> s1, errors |-> e1, raised |-> TRUE]
        ELSE [ss |-> InitLists(s3), errors |-> e1 \cup e2 \cup e3, raised |-> FALSE]

\* The inputs that can make a difference to SessionInit in this state.
RelevantInit(ss) ==
    {in \in InitInputs :
        /\ (HasIn(ss, "embeddings") => in.emb)
        /\ (HasIn(ss, "vector_store") => in.load)
        /\ (HasIn(ss, "qa_chain") => in.chain)}

----------------------------------------------------------------------------
(* The "Process Uploaded PDFs" handler: lines 307-339 of main *)

\* The index object the session holds after a call that did not hand a new
\* one back: None stays None, an existing object keeps what was inserted
\* into it.
SameObject(held, returned) == IF held.tag = "None" THEN held ELSE returned

\* The state a batch loop threads through its iterations: the session's
\* index and registry, the two directories, the tally, and a record of the
\* iterations made (for each file reached, whether it was "skipped", or
\* handed to the ingestor and "ok", "failed" or "crashed"; and the index
\* directory as the last success left it).
NothingSaved == [tag |-> "nothing", chunks |-> <<>>]

LoopState(ss, dsk, files) ==
    [vector_store |-> ss.vector_store, processed_files |-> ss.processed_files,
     disk |-> dsk, pdfs |-> files, success_count |-> 0,
     status |-> <<>>, saved |-> NothingSaved, crashed |-> FALSE]

\* lines 317-327: the file goes to the ingestor; only a success reaches the
\* session's index handle, the registry and the tally.
UploadIngest(st, pdf_file, embeddings, mode) ==
    LET pdf_path == RootPath(pdf_file.name)
        r == process_pdf(pdf_file, st.vector_store, embeddings, st.disk, st.pdfs, mode)
    IN  IF r.success
        THEN [st EXCEPT !.vector_store = r.vector_store,
                        !.processed_files = Append(@, pdf_file.name),
                        !.success_count = @ + 1,
                        !.disk = r.disk, !.pdfs = r.pdfs,
                        !.status = Append(@, "ok"),
                        !.saved = r.disk]
        ELSE [st EXCEPT !.vector_store = SameObject(@, r.vector_store),
                        !.disk = r.disk, !.pdfs = r.pdfs,
                        !.status = Append(@, IF r.crashed THEN "crashed" ELSE "failed"),
                        !.crashed = r.crashed]

\* Mutant: the registry is not consulted before the ingestor is called.
UploadStepNoDedup(st, pdf_file, embeddings, mode) ==
    UploadIngest(st, pdf_file, embeddings, mode)

\* One iteration of the loop of lines 315-330.
UploadStep(st, pdf_file, embeddings, mode) ==
    IF pdf_file.name \in Range(st.processed_files)
    THEN [st EXCEPT !.status = Append(@, "skipped")]
    ELSE UploadIngest(st, pdf_file, embeddings, mode)

\* Mutant: the first failed ingestion ends the batch.
RECURSIVE UploadLoopStopsOnFailure(_, _, _)
UploadLoopStopsOnFailure(st, uploaded_files, embeddings) ==
    IF uploaded_files = <<>> \/ st.crashed \/ "failed" \in Range(st.status) THEN {st}
    ELSE UNION {UploadLoopStopsOnFailure(s2, Tail(uploaded_files), embeddings) :
                  s2 \in {UploadStep(st, Head(uploaded_files), embeddings, mode) :
                             mode \in UploadModes}}

\* The loop of lines 315-330: every way it can go, one per choice of where
\* the ingestions fail.  After a crash nothing more is run.
RECURSIVE UploadLoop(_, _, _)
UploadLoop(st, uploaded_files, embeddings) ==
    IF uploaded_files = <<>> \/ st.crashed THEN {st}
    ELSE UNION {UploadLoop(s2, Tail(uploaded_files), embeddings) :
                  s2 \in {UploadStep(st, Head(uploaded_files), embeddings, mode) :
                             mode \in UploadModes}}

----------------------------------------------------------------------------
(* scan_and_process_local_pdfs: lines 182-201 *)

\* pdf_dir.rglob("*.pdf"): the files present, at any depth.
Rglob(files) == {p \in DOMAIN files : files[p] # Absent}

\* lines 196-199: the local vector_store takes whatever the call returns.
ScanIngest(st, pdf_path, embeddings, mode) ==
    LET r == process_pdf_from_file(pdf_path, st.vector_store, embeddings,
                                   st.disk, st.pdfs, mode)
    IN  IF r.success
        THEN [st EXCEPT !.vector_store = r.vector_store,
                        !.processed_files = Append(@, Basename(pdf_path)),
                        !.success_count = @ + 1,
                        !.disk = r.disk,
                        !.status = Append(@, "ok"),
                        !.saved = r.disk]
        ELSE [st EXCEPT !.vector_store = r.vector_store,
                        !.disk = r.disk,
                        !.status = Append(@, IF r.crashed THEN "crashed" ELSE "failed"),
                        !.crashed = r.crashed]

\* One iteration of the loop of lines 193-199.
ScanStep(st, pdf_path, embeddings, mode) ==
    IF Basename(pdf_path) \in Range(st.processed_files)
    THEN [st EXCEPT !.status = Append(@, "skipped")]
    ELSE ScanIngest(st, pdf_path, embeddings, mode)

\* The loop of lines 193-199: every way it can go.
RECURSIVE scan_and_process_local_pdfs(_, _, _)
scan_and_process_local_pdfs(st, pdf_files, embeddings) ==
    IF pdf_files = <<>> \/ st.crashed THEN {st}
    ELSE UNION {scan_and_process_local_pdfs(s2, Tail(pdf_files), embeddings) :
                  s2 \in {ScanStep(st, Head(pdf_files), embeddings, mode) :
                             mode \in IngestModes}}

----------------------------------------------------------------------------
(* Retrieval-Augmented Answerer: initialize_qa_chain's retriever, get_answer *)
Questions == {"what is in a.pdf?"}
Answers == {"I don't know", "grounded answer"}

\* Similarity of a chunk to a question, as the embedding runtime scores it:
\* here a question about a file scores the chunks of that file highest.
Score(question, chunk) == IF chunk.source = "a.pdf" THEN 1 ELSE 0

\* The position of the best chunk among those left (ties: insertion order).
Best(question, chunks, left) ==
    CHOOSE i \in left :
        \A j \in left :
            \/ Score(question, chunks[i]) > Score(question, chunks[j])
            \/ Score(question, chunks[i]) = Score(question, chunks[j]) /\ i <= j

\* vector_store.as_retriever(search_kwargs={"k": k}): up to k nearest chunks.
RECURSIVE Nearest(_, _, _, _)
Nearest(question, chunks, left, k) ==
    IF k = 0 \/ left = {} THEN <<>>
    ELSE LET b == Best(question, chunks, left)
         IN <<chunks[b]>> \o Nearest(question, chunks, left \ {b}, k - 1)

\* Mutant: the retriever hands back every chunk of the index, nearest first.
RetrieveAll(question, vector_store) ==
    Nearest(question, vector_store.chunks, 1..Len(vector_store.chunks),
            Len(vector_store.chunks))

Retrieve(question, vector_store) ==
    Nearest(question, vector_store.chunks, 1..Len(vector_store.chunks), RETRIEVAL_TOP_K)

\* What the remote model does with one request: it answers, or the request fails.
LlmReplies == [ok : {TRUE}, text : Answers] \cup [ok : {FALSE}, text : {""}]

\* Mutant: a failed invocation is tried once more.
get_answer_retry(qa_chain, question, vector_store, embeddings, llm) ==
    IF qa_chain = None \/ embeddings = None \/ ~llm.ok
    THEN [ok |-> FALSE, result |-> "", source_documents |-> <<>>,
          invocations |-> 2, raised |-> FALSE, errors |-> {"Error getting answer"}]
    ELSE [ok |-> TRUE, result |-> llm.text,
          source_documents |-> Retrieve(question, vector_store),
          invocations |-> 1, raised |-> FALSE, errors |-> {}]

\* get_answer(qa_chain, question): the response, or None after a reported
\* error; how often the chain was invoked.  Invoking raises when there is
\* no chain, no embedding runtime, or the request to the model fails.
get_answer(qa_chain, question, vector_store, embeddings, llm) ==
    IF qa_chain = None \/ embeddings = None \/ ~llm.ok
    THEN [ok |-> FALSE, result |-> "", source_documents |-> <<>>,
          invocations |-> 1, raised |-> FALSE, errors |-> {"Error getting answer"}]
    ELSE [ok |-> TRUE, result |-> llm.text,
          source_documents |-> Retrieve(question, vector_store),
          invocations |-> 1, raised |-> FALSE, errors |-> {}]

\* lines 475-481: what a turn keeps of each source document
TurnSources(source_documents) ==
    [i \in 1..Len(source_documents) |->
        [source |-> source_documents[i].source,
         content |-> source_documents[i].page_content]]

\* Mutant: the chain is used without looking at it.
ChainUsableAlways(ss) == TRUE

\* line 450: `if st.session_state.qa_chain:`
ChainUsable(ss) == ss.qa_chain # None

\* Mutant: a turn is appended whatever came back.
RecordTurnAlways(ss, question, response) ==
    [ss EXCEPT !.chat_history =
        Append(@, [question |-> question, answer |-> response.result,
                   sources |-> TurnSources(response.source_documents)])]

\* Mutant: the new turn replaces the history.
RecordTurnReplaces(ss, question, response) ==
    IF response.ok
    THEN [ss EXCEPT !.chat_history =
             <<[question |-> question,
                answer |-> response.result,
                sources |-> TurnSources(response.source_documents)]>>]
    ELSE ss

\* lines 453-482: a turn is appended only for a response.
RecordTurn(ss, question, response) ==
    IF response.ok
    THEN [ss EXCEPT !.chat_history =
             Append(@, [question |-> question,
                        answer |-> response.result,
                        sources |-> TurnSources(response.source_documents)])]
    ELSE ss

\* lines 442-484: one submitted question.  Reading session_state.qa_chain
\* raises when the key was never set.
AskQuestion(ss, question, llm) ==
    IF ~HasIn(ss, "qa_chain")
    THEN [ss |-> ss, outcome |-> "Raised", invocations |-> 0, raised |-> TRUE, errors |-> {}]
    ELSE IF ~ChainUsable(ss)
    THEN [ss |-> ss, outcome |-> "Failed", invocations |-> 0, raised |-> FALSE,
          errors |-> {"QA chain not initialized"}]
    ELSE LET response == get_answer(ss.qa_chain, question, ss.vector_store,
                                    ss.embeddings, llm)
         IN  [ss |-> RecordTurn(ss, question, response),
              outcome |-> IF response.raised THEN "Raised"
                          ELSE IF response.ok THEN "Answered" ELSE "Failed",
              invocations |-> response.invocations,
              raised |-> response.raised, errors |-> response.errors]

----------------------------------------------------------------------------
(* The state machine: one step is one run of main(), or one step of the
   environment *)
KeyValues == {None, "", "sk-key"}

NoIndex == [tag |-> "absent", chunks |-> <<>>]

\* What a run of main() showed and did.
Obs(op) ==
    [op |-> op, halted |-> FALSE, raised |-> FALSE, crashed |-> FALSE,
     errors |-> {}, batch |-> <<>>, status |-> <<>>,
     saved |-> NothingSaved, success_count |-> 0, invocations |-> 0, outcome |-> "none"]

\* The splitter and the backup script before anything was given to them.
NoSplit == [text |-> <<>>, chunks |-> <<>>, called |-> FALSE]
EmptyBucket == [k \in {} |-> ""]
NoFiles == [f \in {} |-> ""]
NoSource == [kind |-> "missing", files |-> {}]
NoResult == [op |-> "none"]
NotAppAtRest ==
    /\ text_splitter = NoSplit
    /\ bucket = EmptyBucket
    /\ now = 0
    /\ local = [source |-> NoSource, restore |-> NoFiles]
    /\ result = NoResult

Init ==
    /\ NotAppAtRest
    /\ OPENAI_API_KEY \in KeyValues
    /\ session_state = EmptySession
    /\ disk = NoIndex
    /\ pdfs = [p \in Paths |-> Absent]
    /\ last = Obs("idle")

\* No run of main() is going on: the last one has ended and its output has
\* been seen.  Events and the environment act between runs.
Idle == last.op = "idle"

\* The widgets of the page exist once a run of main() has got past the
\* initialisation of the session.
Rendered == Has("processed_files") /\ Has("chat_history")

\* A run that stops at the key check (st.stop()).
Halt(op) ==
    /\ last' = [Obs(op) EXCEPT !.halted = TRUE]
    /\ UNCHANGED <<OPENAI_API_KEY, session_state, disk, pdfs>>

\* A run whose initialisation raised: the keys set so far stay.
InitRaised(op, i) ==
    /\ session_state' = i.ss
    /\ last' = [Obs(op) EXCEPT !.raised = TRUE, !.errors = i.errors]
    /\ UNCHANGED <<OPENAI_API_KEY, disk, pdfs>>

\* A run of main() without any widget event (page load, a rerun).
PageLoad ==
    /\ Idle
    /\ UNCHANGED notApp
    /\ IF ~KeyCheckPasses(OPENAI_API_KEY) THEN Halt("load")
       ELSE \E in \in RelevantInit(session_state) :
         \E i \in {SessionInit(session_state, disk, in)} :
                IF i.raised THEN InitRaised("load", i)
                ELSE /\ session_state' = i.ss
                     /\ last' = [Obs("load") EXCEPT !.errors = i.errors]
                     /\ UNCHANGED <<OPENAI_API_KEY, disk, pdfs>>

\* The sequences of length 1..n over S, and the orders of a finite set.
SeqsUpTo(S, n) == UNION {[1..k -> S] : k \in 1..n}
Orders(S) == {s \in [1..Cardinality(S) -> S] : \A i, j \in 1..Cardinality(S) : s[i] = s[j] => i = j}

\* After a batch: the session with the loop's results (lines 323-324, 345),
\* and the chain rebuilt when something was ingested (lines 335-338, 346-348).
AfterBatch(ss, st, chainOk) ==
    LET s1 == [ss EXCEPT !.vector_store = st.vector_store,
                         !.processed_files = st.processed_files]
    IN  IF st.success_count > 0
        THEN Put(s1, "qa_chain", initialize_qa_chain(st.vector_store, chainOk).value)
        ELSE s1

BatchObs(op, given, st, i) ==
    [Obs(op) EXCEPT !.batch = given, !.status = st.status, !.saved = st.saved,
                    !.success_count = st.success_count,
                    !.crashed = st.crashed, !.errors = i.errors]

\* The "Process Uploaded PDFs" button with a non-empty selection of files.
ProcessUploads ==
    /\ Idle
    /\ UNCHANGED notApp
    /\ Rendered
    /\ KeyCheckPasses(OPENAI_API_KEY)
    /\ \E in \in RelevantInit(session_state),
          uploaded_files \in SeqsUpTo(UploadedFiles, MaxBatch) :
       \E i \in {SessionInit(session_state, disk, in)} :
       \E st \in UploadLoop(LoopState(i.ss, disk, pdfs), uploaded_files, i.ss.embeddings) :
       \E chainOk \in BOOLEAN :
              /\ ~i.raised
              /\ Len(st.vector_store.chunks) <= MaxIndex
              /\ (st.success_count = 0 => chainOk)
              /\ session_state' = IF st.crashed THEN EmptySession
                                  ELSE AfterBatch(i.ss, st, chainOk)
              /\ disk' = st.disk
              /\ pdfs' = st.pdfs
              /\ last' = BatchObs("upload",
                                   [k \in 1..Len(uploaded_files) |->
                                       RootPath(uploaded_files[k].name)], st, i)
              /\ UNCHANGED OPENAI_API_KEY

\* The "Scan Local PDF Folders" button.
ScanLocal ==
    /\ Idle
    /\ UNCHANGED notApp
    /\ Rendered
    /\ KeyCheckPasses(OPENAI_API_KEY)
    /\ \E in \in RelevantInit(session_state), pdf_files \in Orders(Rglob(pdfs)) :
       \E i \in {SessionInit(session_state, disk, in)} :
       \E st \in scan_and_process_local_pdfs(LoopState(i.ss, disk, pdfs), pdf_files,
                                              i.ss.embeddings) :
       \E chainOk \in BOOLEAN :
              /\ ~i.raised
              /\ Len(st.vector_store.chunks) <= MaxIndex
              /\ (st.success_count = 0 => chainOk)
              /\ session_state' = IF st.crashed THEN EmptySession
                                  ELSE AfterBatch(i.ss, st, chainOk)
              /\ disk' = st.disk
              /\ UNCHANGED pdfs
              /\ last' = BatchObs("scan", pdf_files, st, i)
              /\ UNCHANGED OPENAI_API_KEY

\* The "Clear All Data" button: the first click arms it, the next one clears.
ConfirmClear(ss) == IF HasIn(ss, "confirm_clear") THEN ss.confirm_clear ELSE FALSE

ClearedSession(ss) ==
    Put([ss EXCEPT !.vector_store = NoStore, !.processed_files = <<>>,
                   !.chat_history = <<>>, !.confirm_clear = FALSE],
        "qa_chain", None)

ClearAllData ==
    /\ Idle
    /\ UNCHANGED notApp
    /\ Rendered
    /\ KeyCheckPasses(OPENAI_API_KEY)
    /\ \E in \in RelevantInit(session_state), rmtreeOk \in BOOLEAN :
       \E i \in {SessionInit(session_state, disk, in)} :
              /\ ~i.raised
              /\ IF ConfirmClear(i.ss)
                 THEN IF rmtreeOk
                      THEN /\ disk' = NoIndex
                           /\ session_state' = ClearedSession(i.ss)
                           /\ last' = [Obs("clear") EXCEPT !.errors = i.errors,
                                                           !.outcome = "Cleared"]
                      ELSE /\ disk' = disk
                           /\ session_state' = i.ss
                           /\ last' = [Obs("clear") EXCEPT
                                          !.errors = i.errors \cup {"Error clearing data"}]
                 ELSE /\ rmtreeOk
                      /\ disk' = disk
                      /\ session_state' = Put(i.ss, "confirm_clear", TRUE)
                      /\ last' = [Obs("clear") EXCEPT !.errors = i.errors,
                                                      !.outcome = "Armed"]
              /\ UNCHANGED <<OPENAI_API_KEY, pdfs>>

\* A question typed into the chat input (shown once a file is processed).
Ask ==
    /\ Idle
    /\ UNCHANGED notApp
    /\ Rendered
    /\ KeyCheckPasses(OPENAI_API_KEY)
    /\ session_state.processed_files # <<>>
    /\ \E in \in RelevantInit(session_state), question \in Questions, llm \in LlmReplies :
       \E i \in {SessionInit(session_state, disk, in)} :
       \E a \in {AskQuestion(i.ss, question, llm)} :
              /\ ~i.raised
              /\ Len(a.ss.chat_history) <= MaxChat
              /\ session_state' = a.ss
              /\ last' = [Obs("ask") EXCEPT !.errors = i.errors \cup a.errors,
                                            !.outcome = a.outcome,
                                            !.invocations = a.invocations,
                                            !.raised = a.raised]
              /\ UNCHANGED <<OPENAI_API_KEY, disk, pdfs>>

\* The "Clear Chat History" button (shown under a non-empty history).
ClearChatHistory ==
    /\ Idle
    /\ UNCHANGED notApp
    /\ Rendered
    /\ KeyCheckPasses(OPENAI_API_KEY)
    /\ session_state.processed_files # <<>>
    /\ session_state.chat_history # <<>>
    /\ \E in \in RelevantInit(session_state) :
       \E i \in {SessionInit(session_state, disk, in)} :
              /\ ~i.raised
              /\ session_state' = [i.ss EXCEPT !.chat_history = <<>>]
              /\ last' = [Obs("clear_chat") EXCEPT !.errors = i.errors]
              /\ UNCHANGED <<OPENAI_API_KEY, disk, pdfs>>

\* Environment: the process is restarted (the key is read again) or the
\* page is opened in a new session; the session state starts empty.
NewSession ==
    /\ Idle
    /\ UNCHANGED notApp
    /\ OPENAI_API_KEY' \in KeyValues
    /\ session_state' = EmptySession
    /\ UNCHANGED <<disk, pdfs, last>>

\* Environment: a file is put into a nested folder of data/pdfs by hand.
PlaceLocalFile ==
    /\ Idle
    /\ UNCHANGED notApp
    /\ \E f \in LocalFiles :
          /\ pdfs[f.path] = Absent
          /\ pdfs' = [pdfs EXCEPT ![f.path] = f.content]
    /\ UNCHANGED <<OPENAI_API_KEY, session_state, disk, last>>

\* Environment: the index files are damaged (a torn write, a bad disk).
CorruptIndex ==
    /\ Idle
    /\ UNCHANGED notApp
    /\ disk.tag = "index"
    /\ disk' = [tag |-> "corrupt", chunks |-> <<>>]
    /\ UNCHANGED <<OPENAI_API_KEY, session_state, pdfs, last>>

\* The run of main() has ended; its output stays on the page until the next
\* event is handled.
RunEnds ==
    /\ ~Idle
    /\ UNCHANGED notApp
    /\ last' = Obs("idle")
    /\ UNCHANGED <<OPENAI_API_KEY, session_state, disk, pdfs>>

Next ==
    \/ RunEnds
    \/ PageLoad
    \/ ProcessUploads
    \/ ScanLocal
    \/ ClearAllData
    \/ Ask
    \/ ClearChatHistory
    \/ NewSession
    \/ PlaceLocalFile
    \/ CorruptIndex

Spec == Init /\ [][Next]_vars

----------------------------------------------------------------------------
(* Questions over larger indexes.  The session starts after an upload of one
   or two files in which every ingestion succeeded (the upload handler run
   from a fresh session over an empty index directory); the files may be
   long enough to give more chunks than the retriever returns. *)
AnswerFiles == [name : Names, content : Contents \cup {LongContent}]

AnswerUploads ==
    {s \in SeqsUpTo(AnswerFiles, MaxBatch) :
        \A i, j \in 1..Len(s) : s[i].name = s[j].name => i = j}

AllInitOk == [emb |-> TRUE, load |-> TRUE, chain |-> TRUE]

InitAnswer ==
    /\ NotAppAtRest
    /\ OPENAI_API_KEY = "sk-key"
    /\ last = Obs("idle")
    /\ \E uploaded_files \in AnswerUploads :
       \E i \in {SessionInit(EmptySession, NoIndex, AllInitOk)} :
       \E st \in UploadLoop(LoopState(i.ss, NoIndex, [p \in Paths |-> Absent]),
                            uploaded_files, i.ss.embeddings) :
              /\ st.success_count = Len(uploaded_files)
              /\ session_state = AfterBatch(i.ss, st, TRUE)
              /\ disk = st.disk
              /\ pdfs = st.pdfs

NextAnswer ==
    \/ RunEnds
    \/ Ask
    \/ ClearChatHistory

SpecAnswer == InitAnswer /\ [][NextAnswer]_vars

----------------------------------------------------------------------------
(* The text splitter of process_pdf_from_file, character by character:
   RecursiveCharacterTextSplitter(chunk_size, chunk_overlap, separators)
   with the library's defaults keep_separator=True, strip_whitespace=True
   and len as the length function.  A text is a sequence of characters; a
   piece of it is the range of offsets [from, to) it covers. *)
MaxText == 6             \* characters of a text
SplitChunkSize == 3      \* chunk_size of the splitter under test
SplitOverlap == 1        \* chunk_overlap of the splitter under test

Chars == {"x", ".", " ", "\n"}
Whitespace == {" ", "\n"}
Texts == UNION {[1..n -> Chars] : n \in 0..MaxText}

\* Mutant: the list without the word break.
SeparatorsWithoutSpace == << <<"\n", "\n">>, <<"\n">>, <<".">>, <<>> >>

\* separators=["\n\n", "\n", ".", " ", ""]
Separators == << <<"\n", "\n">>, <<"\n">>, <<".">>, <<" ">>, <<>> >>

Piece(from, to) == [from |-> from, to |-> to]
PLen(p) == p.to - p.from

\* separator occurs in the text at offset i, inside [from, to)
MatchAt(text, sep, i, to) ==
    i + Len(sep) <= to /\ SubSeq(text, i + 1, i + Len(sep)) = sep

\* re.search(separator, text) on the piece [from, to)
Occurs(text, sep, from, to) == \E i \in from..(to - 1) : MatchAt(text, sep, i, to)

\* re.split with the separator kept: each separator starts the piece after
\* it; matches are taken leftmost and do not overlap.
RECURSIVE Scan(_, _, _, _, _)
Scan(text, sep, i, start, to) ==
    IF i + Len(sep) > to THEN <<Piece(start, to)>>
    ELSE IF MatchAt(text, sep, i, to)
         THEN <<Piece(start, i)>> \o Scan(text, sep, i + Len(sep), i, to)
         ELSE Scan(text, sep, i + 1, start, to)

\* _split_text_with_regex: the pieces, the empty ones dropped; with the
\* empty separator, the characters one by one.
split_text_with_regex(text, sep, from, to) ==
    IF sep = <<>>
    THEN [k \in 1..(to - from) |-> Piece(from + k - 1, from + k)]
    ELSE SelectSeq(Scan(text, sep, from, from, to), LAMBDA p : PLen(p) > 0)

\* str.strip() of the piece [from, to): the range left.
RECURSIVE StripLeft(_, _, _)
StripLeft(text, from, to) ==
    IF from < to /\ text[from + 1] \in Whitespace THEN StripLeft(text, from + 1, to)
    ELSE from

RECURSIVE StripRight(_, _, _)
StripRight(text, from, to) ==
    IF from < to /\ text[to] \in Whitespace THEN StripRight(text, from, to - 1)
    ELSE to

\* _join_docs: the pieces joined (they follow one another in the text) and
\* stripped; nothing when only whitespace is left.  A chunk keeps the range
\* it was joined from and its text.
join_docs(text, current_doc) ==
    LET from == current_doc[1].from
        to == current_doc[Len(current_doc)].to
        a == StripLeft(text, from, to)
        b == StripRight(text, a, to)
    IN  IF a = b THEN <<>>
        ELSE <<[from |-> from, to |-> to, text |-> SubSeq(text, a + 1, b)]>>

\* the inner while loop of _merge_splits: pieces are dropped from the front
\* of the current chunk until what is kept is within the overlap and the
\* next piece fits.
RECURSIVE PopFront(_, _, _, _, _)
PopFront(current_doc, total, len, chunk_size, chunk_overlap) ==
    IF total > chunk_overlap \/ (total + len > chunk_size /\ total > 0)
    THEN PopFront(Tail(current_doc), total - PLen(Head(current_doc)), len,
                  chunk_size, chunk_overlap)
    ELSE [current_doc |-> current_doc, total |-> total]

\* _merge_splits from the k-th piece on (the separator between pieces is
\* empty, the separators being kept in the pieces).
RECURSIVE merge_from(_, _, _, _, _, _, _)
merge_from(text, splits, k, current_doc, total, chunk_size, chunk_overlap) ==
    IF k > Len(splits)
    THEN IF current_doc = <<>> THEN <<>> ELSE join_docs(text, current_doc)
    ELSE LET d == splits[k]
             len == PLen(d)
         IN  IF total + len > chunk_size /\ current_doc # <<>>
             THEN LET kept == PopFront(current_doc, total, len, chunk_size, chunk_overlap)
                  IN  join_docs(text, current_doc)
                      \o merge_from(text, splits, k + 1, Append(kept.current_doc, d),
                                    kept.total + len, chunk_size, chunk_overlap)
             ELSE merge_from(text, splits, k + 1, Append(current_doc, d),
                             total + len, chunk_size, chunk_overlap)

merge_splits(text, splits, chunk_size, chunk_overlap) ==
    merge_from(text, splits, 1, <<>>, 0, chunk_size, chunk_overlap)

\* The separator _split_text picks: the first of the list that is empty or
\* occurs in the piece (the last one when none does), and the separators
\* left for the pieces that are still too long.
FirstFound(text, separators, from, to) ==
    {k \in 1..Len(separators) :
        /\ separators[k] = <<>> \/ Occurs(text, separators[k], from, to)
        /\ \A j \in 1..(k - 1) :
              separators[j] # <<>> /\ ~Occurs(text, separators[j], from, to)}

\* RecursiveCharacterTextSplitter._split_text on the piece [from, to).
RECURSIVE split_text(_, _, _, _, _, _)
RECURSIVE split_loop(_, _, _, _, _, _, _)

split_loop(text, splits, k, good_splits, new_separators, chunk_size, chunk_overlap) ==
    IF k > Len(splits)
    THEN merge_splits(text, good_splits, chunk_size, chunk_overlap)
    ELSE LET s == splits[k]
         IN  IF PLen(s) < chunk_size
             THEN split_loop(text, splits, k + 1, Append(good_splits, s),
                             new_separators, chunk_size, chunk_overlap)
             ELSE merge_splits(text, good_splits, chunk_size, chunk_overlap)
                  \o (IF new_separators = <<>>
                      THEN <<[from |-> s.from, to |-> s.to,
                              text |-> SubSeq(text, s.from + 1, s.to)]>>
                      ELSE split_text(text, new_separators, s.from, s.to,
                                      chunk_size, chunk_overlap))
                  \o split_loop(text, splits, k + 1, <<>>, new_separators,
                                chunk_size, chunk_overlap)

split_text(text, separators, from, to, chunk_size, chunk_overlap) ==
    LET found == FirstFound(text, separators, from, to)
        i == IF found = {} THEN Len(separators) ELSE CHOOSE k \in found : TRUE
        separator == separators[i]
        new_separators ==
            IF found = {} \/ separator = <<>> THEN <<>>
            ELSE SubSeq(separators, i + 1, Len(separators))
    IN  split_loop(text, split_text_with_regex(text, separator, from, to), 1, <<>>,
                   new_separators, chunk_size, chunk_overlap)

\* text_splitter.split_text(text) with the separators of the program.
SplitChars(text, chunk_size, chunk_overlap) ==
    split_text(text, Separators, 0, Len(text), chunk_size, chunk_overlap)

\* A text is there to be split; split_text is called on it once.
InitSplitter ==
    /\ \E text \in Texts : text_splitter = [NoSplit EXCEPT !.text = text]
    /\ OPENAI_API_KEY = "sk-key"
    /\ session_state = EmptySession
    /\ disk = NoIndex
    /\ pdfs = [p \in Paths |-> Absent]
    /\ last = Obs("idle")
    /\ bucket = EmptyBucket
    /\ now = 0
    /\ local = [source |-> NoSource, restore |-> NoFiles]
    /\ result = NoResult

SplitOneText ==
    /\ ~text_splitter.called
    /\ text_splitter' = [text |-> text_splitter.text,
                         chunks |-> SplitChars(text_splitter.text, SplitChunkSize,
                                               SplitOverlap),
                         called |-> TRUE]
    /\ UNCHANGED <<appVars, backupVars>>

NextSplitter == SplitOneText

SpecSplitter == InitSplitter /\ [][NextSplitter]_vars

----------------------------------------------------------------------------
(* The backup script, src/scripts/backup-vector-store.py: a BackupManager
   over one S3 bucket.  An S3 key is the sequence of its "/"-separated
   parts; a prefix is such a sequence with or without a "/" at its end. *)
MaxDays == 2             \* days the clock runs
MaxBackups == 2          \* backups created
SecondsPerDay == 86400   \* 24 * 60 * 60

BackupNames == {"vector_store", "pdfs"}
SourceFiles == {<<"index.faiss">>, <<"sub", "a.pdf">>}
RetentionDays == {1}
MetadataName == "_backup_metadata.json"

\* datetime.now().strftime('%Y%m%d_%H%M%S') and datetime.strptime back:
\* the instants of the model are the midnights of the first days of 2024.
Stamps ==
    <<"20240101_000000", "20240102_000000", "20240103_000000",
      "20240104_000000", "20240105_000000">>
Epochs == {d * SecondsPerDay : d \in 0..(Len(Stamps) - 1)}
strftime(t) == Stamps[(t \div SecondsPerDay) + 1]
IsStamp(part) == \E t \in Epochs : strftime(t) = part
strptime(stamp) == CHOOSE t \in Epochs : strftime(t) = stamp

\* S3 strings
Str(parts, slash) == [none |-> FALSE, parts |-> parts, slash |-> slash]
NoPrefix == [none |-> TRUE, parts |-> <<>>, slash |-> FALSE]

\* The objects of the bucket: a file of the source directory, or the
\* metadata sidecar.
FileBody(relative_path) ==
    [kind |-> "file", path |-> relative_path, file_count |-> 0, total_files |-> 0,
     backup_name |-> "", timestamp |-> "", retention_days |-> 0, status |-> ""]

\* string prefix between parts of keys: no part of the model is a proper
\* prefix of another
StartsWith(part, p) == part = p

\* key starts with the prefix string
KeyMatches(key, prefix) ==
    LET n == Len(prefix.parts)
    IN  IF n = 0 THEN TRUE
        ELSE IF prefix.slash
        THEN Len(key) > n /\ SubSeq(key, 1, n) = prefix.parts
        ELSE /\ Len(key) >= n
             /\ SubSeq(key, 1, n - 1) = SubSeq(prefix.parts, 1, n - 1)
             /\ StartsWith(key[n], prefix.parts[n])

\* list_objects_v2(Prefix=prefix): the keys under the prefix ('Contents')
ListObjects(bkt, prefix) == {key \in DOMAIN bkt : KeyMatches(key, prefix)}

\* list_objects_v2(Prefix=prefix, Delimiter='/'): a key with a "/" after
\* the prefix is rolled up into the common prefix that ends at the first
\* such "/" ('CommonPrefixes').
CommonPrefixes(bkt, prefix) ==
    LET n == Len(prefix.parts)
        upto == IF prefix.slash \/ n = 0 THEN n + 1 ELSE n
    IN  {Str(SubSeq(key, 1, upto), TRUE) :
            key \in {k \in ListObjects(bkt, prefix) : Len(k) > upto}}

\* the bucket with an object put (upload_file, put_object) or deleted
PutObject(bkt, key, body) ==
    [k \in (DOMAIN bkt) \cup {key} |-> IF k = key THEN body ELSE bkt[k]]
DeleteObjects(bkt, keys) == [k \in (DOMAIN bkt) \ keys |-> bkt[k]]

RECURSIVE PutFiles(_, _, _)
PutFiles(bkt, parts, files) ==
    IF files = {} THEN bkt
    ELSE LET f == CHOOSE x \in files : TRUE
         IN  PutFiles(PutObject(bkt, parts \o f, FileBody(f)), parts, files \ {f})

\* Mutant: the status does not look at the counts.
MetadataAlwaysCompleted(backup_name, timestamp, file_count, total_files, retention_days) ==
    [kind |-> "metadata", path |-> <<>>, file_count |-> file_count,
     total_files |-> total_files, backup_name |-> backup_name,
     timestamp |-> timestamp, retention_days |-> retention_days,
     status |-> "completed"]

\* lines 126-134: the metadata of _create_backup_metadata
Metadata(backup_name, timestamp, file_count, total_files, retention_days) ==
    [kind |-> "metadata", path |-> <<>>, file_count |-> file_count,
     total_files |-> total_files, backup_name |-> backup_name,
     timestamp |-> timestamp, retention_days |-> retention_days,
     status |-> IF file_count = total_files THEN "completed" ELSE "partial"]

\* _create_backup_metadata: the sidecar is put; a failing put is logged.
create_backup_metadata(bkt, backup_name, timestamp, file_count, total_files, retention_days, putOk) ==
    IF putOk
    THEN PutObject(bkt, <<"backups", backup_name, timestamp, MetadataName>>,
                   Metadata(backup_name, timestamp, file_count, total_files,
                            retention_days))
    ELSE bkt

\* The local directory to back up: a directory with files, a path that is
\* a file, or nothing.
SourceDirs ==
    [kind : {"dir"}, files : SUBSET SourceFiles]
        \cup {[kind |-> "file", files |-> {}], [kind |-> "missing", files |-> {}]}

\* create_backup(source_dir, backup_name, retention_days) at time t, the
\* uploads of the files in `uploaded` succeeding and the others failing:
\* the returned prefix (or None) and the bucket afterwards.
create_backup(bkt, source, backup_name, retention_days, t, uploaded, putOk) ==
    IF source.kind # "dir"
    THEN [ret |-> NoPrefix, bucket |-> bkt, successful |-> 0, total |-> 0]
    ELSE LET timestamp == strftime(t)
             parts == <<"backups", backup_name, timestamp>>
             successful == Cardinality(uploaded)
             total == Cardinality(source.files)
             after == PutFiles(bkt, parts, uploaded)
         IN  IF successful = 0 /\ total > 0
             THEN [ret |-> NoPrefix, bucket |-> after,
                   successful |-> successful, total |-> total]
             ELSE [ret |-> Str(parts, FALSE),
                   bucket |-> create_backup_metadata(after, backup_name, timestamp,
                                                     successful, total,
                                                     retention_days, putOk),
                   successful |-> successful, total |-> total]

\* The backups a listing can show, in the order S3 lists their keys.
NameOrder == <<"pdfs", "vector_store">>
KeyOrder(prefix) ==
    LET name == prefix.parts[2]
        stamp == prefix.parts[3]
        n == CHOOSE i \in 1..Len(NameOrder) : NameOrder[i] = name
        d == CHOOSE i \in 1..Len(Stamps) : Stamps[i] = stamp
    IN  n * (Len(Stamps) + 1) + d

\* backups.sort(key=timestamp, reverse=True): newest first, backups of one
\* timestamp in the order they were listed in.
RECURSIVE SortNewestFirst(_)
SortNewestFirst(entries) ==
    IF entries = {} THEN <<>>
    ELSE LET first == CHOOSE e \in entries :
                        \A o \in entries \ {e} :
                            \/ strptime(e.timestamp) > strptime(o.timestamp)
                            \/ /\ e.timestamp = o.timestamp
                               /\ KeyOrder(e.prefix) < KeyOrder(o.prefix)
         IN  <<first>> \o SortNewestFirst(entries \ {first})

\* line 268: prefix = f"backups/{backup_name}" if backup_name else "backups/"
ListingPrefix(backup_name) ==
    IF backup_name.none THEN Str(<<"backups">>, TRUE)
    ELSE Str(<<"backups", backup_name.name>>, FALSE)

Name(name) == [none |-> FALSE, name |-> name]
NoName == [none |-> TRUE, name |-> ""]

\* list_backups(backup_name): the common prefixes of one listing with
\* Delimiter='/', those of three parts or more kept, each with its
\* metadata ({'status': 'unknown'} when the sidecar cannot be read).
list_backups(bkt, backup_name, getOk) ==
    LET listed == CommonPrefixes(bkt, ListingPrefix(backup_name))
        kept == {p \in listed : Len(p.parts) >= 3}
        metadata_key(p) == p.parts \o <<MetadataName>>
        entry(p) ==
            [name |-> p.parts[2], timestamp |-> p.parts[3], prefix |-> p,
             status |-> IF getOk /\ metadata_key(p) \in DOMAIN bkt
                        THEN bkt[metadata_key(p)].status ELSE "unknown"]
    IN  SortNewestFirst({entry(p) : p \in kept})

\* s3_key.endswith('_backup_metadata.json'): no file of the model has a
\* name that ends like the sidecar's.
IsMetadataKey(key) == key[Len(key)] = MetadataName

\* lines 329-336: the objects restore_backup tries to download
Restorable(bkt, backup_prefix) ==
    {key \in ListObjects(bkt, backup_prefix) : ~IsMetadataKey(key)}

\* line 341: relative_path = s3_key[len(backup_prefix):].lstrip('/')
RelativePath(key, backup_prefix) ==
    SubSeq(key, Len(backup_prefix.parts) + 1, Len(key))

\* line 360: return successful > 0
RestoreReturn(successful, total) == successful > 0

\* restore_backup(backup_prefix, restore_dir), the downloads of the keys in
\* `downloaded` succeeding and the others failing.
restore_backup(bkt, backup_prefix, restore_dir, downloaded) ==
    LET todo == Restorable(bkt, backup_prefix)
        written == {RelativePath(key, backup_prefix) : key \in downloaded}
        keyOf(path) == CHOOSE key \in downloaded :
                           RelativePath(key, backup_prefix) = path
    IN  [ret |-> RestoreReturn(Cardinality(downloaded), Cardinality(todo)),
         total |-> Cardinality(todo),
         successful |-> Cardinality(downloaded),
         written |-> written,
         restore_dir |->
            [path \in (DOMAIN restore_dir) \cup written |->
                IF path \in written THEN bkt[keyOf(path)] ELSE restore_dir[path]]]

\* lines 376-405: the loop of cleanup_old_backups over the listed backups;
\* a delete_objects that fails raises, is logged, and the loop goes on.
RECURSIVE cleanup_loop(_, _, _, _)
cleanup_loop(bkt, backups, cutoff_date, deleteOk) ==
    IF backups = <<>> THEN bkt
    ELSE LET backup == Head(backups)
             old == IsStamp(backup.timestamp)
                        /\ strptime(backup.timestamp) < cutoff_date
             objects_to_delete == ListObjects(bkt, backup.prefix)
             after == IF old /\ deleteOk
                      THEN DeleteObjects(bkt, objects_to_delete) ELSE bkt
         IN  cleanup_loop(after, Tail(backups), cutoff_date, deleteOk)

\* line 372: cutoff_date = now - retention_days * 24 * 60 * 60
CutoffDate(t, retention_days) == t - retention_days * SecondsPerDay

\* cleanup_old_backups(backup_name, retention_days) at time t
cleanup_old_backups(bkt, backup_name, retention_days, t, getOk, deleteOk) ==
    cleanup_loop(bkt, list_backups(bkt, Name(backup_name), getOk),
                 CutoffDate(t, retention_days), deleteOk)

\* lines 561-567 of main: the prefix of the first listed backup with the
\* timestamp asked for, or None
FindBackup(backups, timestamp) ==
    LET hits == {i \in 1..Len(backups) : backups[i].timestamp = timestamp}
    IN  IF hits = {} THEN NoPrefix
        ELSE backups[CHOOSE i \in hits : \A j \in hits : i <= j].prefix

\* The backups of the bucket: the prefixes backups/<name>/<timestamp> that
\* hold an object.
BackupsIn(bkt) == {SubSeq(key, 1, 3) : key \in DOMAIN bkt}

BackupAtRest == result = NoResult

InitBackup ==
    /\ OPENAI_API_KEY = "sk-key"
    /\ session_state = EmptySession
    /\ disk = NoIndex
    /\ pdfs = [p \in Paths |-> Absent]
    /\ last = Obs("idle")
    /\ text_splitter = NoSplit
    /\ bucket = EmptyBucket
    /\ now = 0
    /\ \E source \in SourceDirs : local = [source |-> source, restore |-> NoFiles]
    /\ result = NoResult

\* One run of create_backup: backup_vector_store, backup_pdfs (lines 149-177)
CreateBackup ==
    /\ BackupAtRest
    /\ Cardinality(BackupsIn(bucket)) < MaxBackups
    /\ \E backup_name \in BackupNames, retention_days \in RetentionDays,
          uploaded \in SUBSET local.source.files, putOk \in BOOLEAN :
        \E r \in {create_backup(bucket, local.source, backup_name,
                                retention_days, now, uploaded, putOk)} :
            /\ bucket' = r.bucket
            /\ result' = [op |-> "create_backup", ret |-> r.ret,
                          backup_name |-> backup_name,
                          uploaded |-> uploaded, sidecar_put |-> putOk]
    /\ UNCHANGED <<appVars, splitterVars, now, local>>

\* One call of list_backups, with or without a name
ListBackups ==
    /\ BackupAtRest
    /\ \E backup_name \in {NoName} \cup {Name(n) : n \in BackupNames},
          getOk \in BOOLEAN :
        result' = [op |-> "list_backups", backup_name |-> backup_name,
                   ret |-> list_backups(bucket, backup_name, getOk)]
    /\ UNCHANGED <<appVars, splitterVars, bucket, now, local>>

\* One call of restore_backup with the prefix of a backup of the bucket,
\* as create_backup returned it or as a listing would show it
RestoreBackup ==
    /\ BackupAtRest
    /\ \E parts \in BackupsIn(bucket), slash \in BOOLEAN :
        \E backup_prefix \in {Str(parts, slash)} :
        \E downloaded \in SUBSET Restorable(bucket, backup_prefix) :
        \E r \in {restore_backup(bucket, backup_prefix, local.restore, downloaded)} :
            /\ local' = [local EXCEPT !.restore = r.restore_dir]
            /\ result' = [op |-> "restore_backup", backup_prefix |-> backup_prefix,
                          ret |-> r.ret, successful |-> r.successful,
                          total |-> r.total, written |-> r.written]
    /\ UNCHANGED <<appVars, splitterVars, bucket, now>>

\* main with --restore <timestamp> (lines 559-580)
MainRestore ==
    /\ BackupAtRest
    /\ \E t \in Epochs, getOk \in BOOLEAN :
        \E backup_prefix \in {FindBackup(list_backups(bucket, NoName, getOk),
                                         strftime(t))} :
        IF backup_prefix.none
        THEN /\ result' = [op |-> "main_restore", timestamp |-> strftime(t),
                           found |-> FALSE, exit |-> 1, written |-> {},
                           successful |-> 0, total |-> 0]
             /\ UNCHANGED local
        ELSE \E downloaded \in SUBSET Restorable(bucket, backup_prefix) :
             \E r \in {restore_backup(bucket, backup_prefix, local.restore,
                                      downloaded)} :
                /\ local' = [local EXCEPT !.restore = r.restore_dir]
                /\ result' = [op |-> "main_restore", timestamp |-> strftime(t),
                              found |-> TRUE, exit |-> IF r.ret THEN 0 ELSE 1,
                              written |-> r.written,
                              successful |-> r.successful, total |-> r.total]
    /\ UNCHANGED <<appVars, splitterVars, bucket, now>>

\* One call of cleanup_old_backups
CleanupOldBackups ==
    /\ BackupAtRest
    /\ \E backup_name \in BackupNames, retention_days \in RetentionDays,
          getOk \in BOOLEAN, deleteOk \in BOOLEAN :
        /\ bucket' = cleanup_old_backups(bucket, backup_name, retention_days,
                                         now, getOk, deleteOk)
        /\ result' = [op |-> "cleanup_old_backups", backup_name |-> backup_name,
                      retention_days |-> retention_days, deleteOk |-> deleteOk]
    /\ UNCHANGED <<appVars, splitterVars, now, local>>

\* Time passes between two runs of the script.
DayPasses ==
    /\ BackupAtRest
    /\ now < MaxDays * SecondsPerDay
    /\ now' = now + SecondsPerDay
    /\ UNCHANGED <<appVars, splitterVars, bucket, local, result>>

\* The script exits.
ScriptEnds ==
    /\ ~BackupAtRest
    /\ result' = NoResult
    /\ UNCHANGED <<appVars, splitterVars, bucket, now, local>>

NextBackup ==
    \/ CreateBackup
    \/ ListBackups
    \/ RestoreBackup
    \/ MainRestore
    \/ CleanupOldBackups
    \/ DayPasses
    \/ ScriptEnds

SpecBackup == InitBackup /\ [][NextBackup]_vars

----------------------------------------------------------------------------
(* The migration script, src/scripts/migrate-to-s3.py: an S3MigrationTool
   uploads the files of a local directory that pass a filter under a
   prefix of the bucket, and verifies the upload afterwards. *)
MigrateFiles == {<<"a.pdf">>, <<"sub", "B.PDF">>, <<"notes.txt">>, <<"index.faiss">>}
MigrateDirs ==
    [kind : {"dir"}, files : SUBSET MigrateFiles]
        \cup {[kind |-> "file", files |-> {}], [kind |-> "missing", files |-> {}]}

\* file_path.name, file_path.suffix and str.lower() on the names of the model
FileName(path) == path[Len(path)]
Suffix(name) ==
    CASE name = "a.pdf" -> ".pdf"
      [] name = "B.PDF" -> ".PDF"
      [] name = "notes.txt" -> ".txt"
      [] name = "index.faiss" -> ".faiss"
      [] OTHER -> ""
Lower(s) == IF s = ".PDF" THEN ".pdf" ELSE s

\* lines 143-144 and 159-160: the file filters of the two migrations
is_pdf(file_path) == Lower(Suffix(FileName(file_path))) = ".pdf"
is_vector_store_file(file_path) == FileName(file_path) \in {"index.faiss", "index.pkl"}
Categories == {"pdfs", "vector_store"}
FileFilter(s3_prefix, file_path) ==
    IF s3_prefix = "pdfs" THEN is_pdf(file_path) ELSE is_vector_store_file(file_path)

\* The files upload_directory tries to upload: those of the tree that pass
\* the filter (none when the path is missing or is not a directory).
FilesToUpload(dir, s3_prefix) ==
    IF dir.kind # "dir" THEN {}
    ELSE {f \in dir.files : FileFilter(s3_prefix, f)}

\* upload_directory(local_dir, s3_prefix, file_filter), the uploads of the
\* files in `uploaded` succeeding: (successful, total) and the bucket after
upload_directory(bkt, dir, s3_prefix, uploaded) ==
    [successful |-> Cardinality(uploaded),
     total |-> Cardinality(FilesToUpload(dir, s3_prefix)),
     bucket |-> PutFiles(bkt, <<s3_prefix>>, uploaded)]

\* lines 201-204: the relative paths of all the files of the local tree
LocalFilesOf(dir) == dir.files

\* lines 207-217: the keys listed under the prefix, "<prefix>/" removed
\* from the keys that start with it
S3FilesOf(bkt, s3_prefix) ==
    {IF KeyMatches(key, Str(<<s3_prefix>>, TRUE))
     THEN SubSeq(key, 2, Len(key)) ELSE key :
        key \in ListObjects(bkt, Str(<<s3_prefix>>, FALSE))}

\* verify_migration(local_dir, s3_prefix)
verify_migration(bkt, dir, s3_prefix) ==
    IF dir.kind = "missing" THEN TRUE
    ELSE LET missing_files == LocalFilesOf(dir) \ S3FilesOf(bkt, s3_prefix)
         IN  missing_files = {}

InitMigrate ==
    /\ OPENAI_API_KEY = "sk-key"
    /\ session_state = EmptySession
    /\ disk = NoIndex
    /\ pdfs = [p \in Paths |-> Absent]
    /\ last = Obs("idle")
    /\ text_splitter = NoSplit
    /\ bucket = EmptyBucket
    /\ now = 0
    /\ \E dir \in MigrateDirs : local = [source |-> dir, restore |-> NoFiles]
    /\ result = NoResult

\* main with --pdfs-only or --vector-store-only (lines 376-407): the
\* category is migrated from the directory and then verified.
Migrate ==
    /\ BackupAtRest
    /\ \E category \in Categories :
       \E uploaded \in SUBSET FilesToUpload(local.source, category) :
       \E r \in {upload_directory(bucket, local.source, category, uploaded)} :
            /\ bucket' = r.bucket
            /\ result' = [op |-> "migrate", category |-> category,
                          successful |-> r.successful, total |-> r.total,
                          verification_ok |->
                              verify_migration(r.bucket, local.source, category)]
    /\ UNCHANGED <<appVars, splitterVars, now, local>>

\* main with --verify-only (lines 352-373), for one category
VerifyOnly ==
    /\ BackupAtRest
    /\ \E category \in Categories :
        result' = [op |-> "verify", category |-> category,
                   successful |-> 0, total |-> 0,
                   verification_ok |->
                       verify_migration(bucket, local.source, category)]
    /\ UNCHANGED <<appVars, splitterVars, bucket, now, local>>

NextMigrate ==
    \/ Migrate
    \/ VerifyOnly
    \/ ScriptEnds

SpecMigrate == InitMigrate /\ [][NextMigrate]_vars

----------------------------------------------------------------------------
(* Properties *)

IsPrefix(s, t) == Len(s) <= Len(t) /\ SubSeq(t, 1, Len(s)) = s

\* s occurs in t as a run of consecutive elements
OccursIn(s, t) ==
    \E k \in 0..(Len(t) - Len(s)) : SubSeq(t, k + 1, k + Len(s)) = s

\* The question of the newest turn.
Last_Question(ss) == ss.chat_history[Len(ss.chat_history)].question

\* This step is a run of main() for the given event.
RunOf(op) == Idle /\ last'.op = op
BatchRun == RunOf("upload") \/ RunOf("scan")

\* The positions of a run's batch that went to the ingestor, and those
\* that succeeded.
Attempted(l) == {k \in 1..Len(l.status) : l.status[k] # "skipped"}
Succeeded(l) == {k \in 1..Len(l.status) : l.status[k] = "ok"}
BatchNames(l) == {Basename(l.batch[k]) : k \in 1..Len(l.batch)}

\* C1: in the upload handler and in the local scan, a file whose name is in
\* processed_files is never handed to the ingestor (nor is a name handed over
\* again once it succeeded in the same batch), and a batch of nothing but
\* processed names leaves the in-memory index, the index directory and
\* processed_files as they were.
C1_DedupNoOp ==
    [][BatchRun =>
        /\ \A k \in Attempted(last') :
              /\ Basename(last'.batch[k]) \notin Range(session_state.processed_files)
              /\ \A j \in Succeeded(last') :
                    j < k => Basename(last'.batch[j]) # Basename(last'.batch[k])
        /\ (BatchNames(last') \subseteq Range(session_state.processed_files)
              => /\ Attempted(last') = {}
                 /\ session_state'.vector_store = session_state.vector_store
                 /\ session_state'.processed_files = session_state.processed_files
                 /\ disk' = disk)]_vars

\* C1 witness: an upload of files that were all processed already.
C1_Witness ==
    /\ last.op = "upload"
    /\ last.batch # <<>>
    /\ Attempted(last) = {}
    /\ session_state.processed_files # <<>>

\* C2: after every ingestion that returned success the index directory
\* holds an index that contains the chunks of each file ingested in the run
\* and, before them, every chunk the in-memory index held before the run.
C2_SuccessIsDurable ==
    [][(BatchRun /\ Succeeded(last') # {}) =>
        /\ disk'.tag = "index"
        /\ IsPrefix(session_state.vector_store.chunks, disk'.chunks)
        /\ \A k \in Succeeded(last') :
              OccursIn(ChunksOf(last'.batch[k], pdfs'[last'.batch[k]]),
                       SubSeq(disk'.chunks, Len(session_state.vector_store.chunks) + 1,
                              Len(disk'.chunks)))]_vars

\* C2 witness: a successful upload into an index that already held a chunk.
C2_Witness ==
    /\ last.op = "upload"
    /\ Succeeded(last) = {1}
    /\ ~last.crashed
    /\ Len(disk.chunks) > Len(ChunksOf(last.batch[1], pdfs[last.batch[1]]))

\* C3: when the process dies between the insert and save_local, the index
\* directory is as the last successful ingestion left it (as it was before
\* the run when none succeeded in it): nothing of the crashed call is in it
\* and nothing persisted earlier is lost.
C3_CrashKeepsLastGood ==
    [][(BatchRun /\ last'.crashed) =>
        disk' = IF last'.saved = NothingSaved THEN disk ELSE last'.saved]_vars

\* C3 witness: a crash in a run over an index directory that holds an index.
C3_Witness ==
    /\ last.crashed
    /\ disk.tag = "index"
    /\ Attempted(last) # {}

\* C4: initialize_vector_store never raises; it gives the loaded index when
\* index.faiss exists and the load succeeds, and None otherwise, a failing
\* load being reported and not propagated.
C4_LoadOrEmpty ==
    [][(RunOf("load") /\ ~last'.halted /\ ~Has("vector_store")) =>
        /\ ~last'.raised
        /\ "vector_store" \in DOMAIN session_state'
        /\ LET v == session_state'.vector_store
               reported == "Error initializing vector store" \in last'.errors
           IN  /\ disk.tag = "absent" => v = NoStore /\ ~reported
               /\ disk.tag = "corrupt" => v = NoStore /\ reported
               /\ disk.tag = "index" =>
                     \/ v = Store(disk.chunks) /\ ~reported
                     \/ v = NoStore /\ reported]_vars

\* C4 witness: a load that failed and was reported, the session left empty.
C4_Witness ==
    /\ last.op = "load"
    /\ "Error initializing vector store" \in last.errors
    /\ session_state.vector_store = NoStore
    /\ disk.tag = "index"

\* C5 (as claimed): within a session the index handle goes from None to a
\* store only in a run in which an ingestion succeeded, is a store after
\* every such run, and goes back to None only by Clear All Data.
C5_HandleFollowsSuccess ==
    [][(Rendered /\ Rendered') =>
        /\ (~TruthyStore(session_state.vector_store)
              /\ TruthyStore(session_state'.vector_store)) => Succeeded(last') # {}
        /\ Succeeded(last') # {} => TruthyStore(session_state'.vector_store)
        /\ (TruthyStore(session_state.vector_store)
              /\ ~TruthyStore(session_state'.vector_store)) => last'.outcome = "Cleared"]_vars

C7_FailedAnswerChangesNothing ==
    [][(RunOf("ask") /\ last'.outcome # "Answered") =>
        /\ Has("qa_chain")
        /\ session_state' = session_state
        /\ disk' = disk
        /\ session_state'.processed_files # <<>>]_vars

\* C7 witness: the chain was invoked and failed, an earlier turn being kept.
C7_Witness ==
    /\ last.op = "ask"
    /\ last.outcome = "Failed"
    /\ last.invocations = 1
    /\ session_state.chat_history # <<>>

\* C8: in a batch that the process survives, every file is reached; a file
\* is skipped only when its name is in processed_files (from before, or from
\* an earlier success of the batch) and is attempted otherwise, whatever
\* happened to the files before it; processed_files gains exactly the names
\* of the files that succeeded, and the tally is their number.
C8_BatchContinues ==
    [][(BatchRun /\ ~last'.crashed) =>
        /\ Len(last'.status) = Len(last'.batch)
        /\ \A k \in 1..Len(last'.status) :
              last'.status[k] = "skipped" <=>
                 \/ Basename(last'.batch[k]) \in Range(session_state.processed_files)
                 \/ \E j \in Succeeded(last') :
                       j < k /\ Basename(last'.batch[j]) = Basename(last'.batch[k])
        /\ IsPrefix(session_state.processed_files, session_state'.processed_files)
        /\ Len(session_state'.processed_files)
              = Len(session_state.processed_files) + Cardinality(Succeeded(last'))
        /\ Range(session_state'.processed_files)
              = Range(session_state.processed_files)
                \cup {Basename(last'.batch[k]) : k \in Succeeded(last')}
        /\ last'.success_count = Cardinality(Succeeded(last'))]_vars

\* C8 witness: the first file of an upload failed and the second succeeded.
C8_Witness ==
    /\ last.op = "upload"
    /\ Len(last.status) = 2
    /\ last.status[1] = "failed"
    /\ last.status[2] = "ok"

\* C9: with no API key every run of main() stops at the key check: the
\* session state is empty and stays empty, and the index directory and the
\* PDF directory are not touched.
C9_NoKeyHalts ==
    [][(Idle /\ last'.op # "idle" /\ ~TruthyStr(OPENAI_API_KEY)) =>
        /\ last'.halted
        /\ session_state = EmptySession
        /\ UNCHANGED <<session_state, disk, pdfs>>]_vars

\* C9 witness: a run halted although an index was there to be loaded.
C9_Witness ==
    /\ last.op = "load"
    /\ last.halted
    /\ disk.tag = "index"

\* C10: a question invokes the chain at most once and ends either Answered,
\* with exactly one turn appended, or Failed, with an error shown and
\* nothing appended.
C10_OneShotQuestion ==
    [][RunOf("ask") =>
        /\ last'.invocations <= 1
        /\ \/ /\ last'.outcome = "Answered"
              /\ last'.errors = {}
              /\ Len(session_state'.chat_history) = Len(session_state.chat_history) + 1
              /\ IsPrefix(session_state.chat_history, session_state'.chat_history)
           \/ /\ last'.outcome = "Failed"
              /\ last'.errors # {}
              /\ session_state'.chat_history = session_state.chat_history]_vars

\* C10 witness: the one invocation of a question failed.
C10_Witness ==
    /\ last.op = "ask"
    /\ last.outcome = "Failed"
    /\ last.invocations = 1
    /\ "Error getting answer" \in last.errors

\* The newest turn of a session, and the smaller of two numbers.
Last_Turn(ss) == ss.chat_history[Len(ss.chat_history)]
Min(a, b) == IF a <= b THEN a ELSE b

\* C11: for every answered question the turn stored keeps, whatever the
\* answer text, one source entry per chunk the retriever returned for that
\* question, in retrieval order (the chunk's source name and its text);
\* their number is at most RETRIEVAL_TOP_K and at most the number of chunks
\* in the index (it is the smaller of the two).
C11_SourcesAreRetrieved ==
    [][(RunOf("ask") /\ last'.outcome = "Answered") =>
        LET turn == Last_Turn(session_state')
            index == session_state.vector_store.chunks
            retrieved == Retrieve(turn.question, session_state.vector_store)
        IN  /\ turn.answer \in Answers
            /\ Len(turn.sources) = Len(retrieved)
            /\ \A k \in 1..Len(retrieved) :
                  /\ turn.sources[k].source = retrieved[k].source
                  /\ turn.sources[k].content = retrieved[k].page_content
                  /\ \E n \in 1..Len(index) : index[n] = retrieved[k]
            /\ Len(turn.sources) <= RETRIEVAL_TOP_K
            /\ Len(turn.sources) <= Len(index)
            /\ Len(turn.sources) = Min(RETRIEVAL_TOP_K, Len(index))]_vars

\* C11 witness: a question over an index of more than RETRIEVAL_TOP_K chunks
\* was answered with "I don't know" and the turn keeps RETRIEVAL_TOP_K
\* sources.
C11_Witness ==
    /\ last.op = "ask"
    /\ last.outcome = "Answered"
    /\ Len(session_state.vector_store.chunks) > RETRIEVAL_TOP_K
    /\ Last_Turn(session_state).answer = "I don't know"
    /\ Len(Last_Turn(session_state).sources) = RETRIEVAL_TOP_K

\* The length of a document's extracted text, the files ingested in the
\* session, and the chunks the index holds of a file (in index order).
RECURSIVE SumLen(_)
SumLen(pages) == IF pages = <<>> THEN 0 ELSE TextLen(Head(pages)) + SumLen(Tail(pages))
DocLen(content) == SumLen(Pages(content))
Ingested == {p \in Paths : pdfs[p] # Absent /\ Basename(p) \in Range(session_state.processed_files)}
ChunksAt(p) == SelectSeq(session_state.vector_store.chunks, LAMBDA c : c.full_path = p)
WholeText(text) == [text |-> text, from |-> 0, to |-> TextLen(text)]

CutOffsets ==
    {i \in {c.from : c \in Range(text_splitter.chunks)}
            \cup {c.to : c \in Range(text_splitter.chunks)} :
        0 < i /\ i < Len(text_splitter.text)}
CharAt(p) == text_splitter.text[p + 1]

\* Around offset i there is a stretch of the text of at least chunk_size
\* characters with none of the given characters inside it (its first
\* character may be one): no cut at one of them could have kept the
\* stretch in one chunk.
NoBetterCut(i, better) ==
    \E a \in 0..(i - 1), b \in (i + 1)..Len(text_splitter.text) :
        /\ b - a >= SplitChunkSize
        /\ \A p \in (a + 1)..(b - 1) : CharAt(p) \notin better

\* The same for the paragraph break, which is two characters long.
NoParagraphCut(i) ==
    \E a \in 0..(i - 1), b \in (i + 1)..Len(text_splitter.text) :
        /\ b - a >= SplitChunkSize
        /\ \A p \in (a + 1)..(b - 2) : ~(CharAt(p) = "\n" /\ CharAt(p + 1) = "\n")

\* C13 (as claimed): the splitter cuts every text as the four-level list
\* paragraph break, line break, sentence break, raw character cut does, no
\* other separator being in its list.
C13_FourLevels ==
    text_splitter.called =>
        text_splitter.chunks =
            split_text(text_splitter.text,
                       << <<"\n", "\n">>, <<"\n">>, <<".">>, <<>> >>,
                       0, Len(text_splitter.text), SplitChunkSize, SplitOverlap)

\* C13 (amended): the list has five levels, the word break (a space)
\* standing between the sentence break and the raw cut, and the splitter
\* cuts accordingly.  No chunk is
\* longer than chunk_size, and a text is cut at a lower level only where
\* no higher one would do: inside a word only in a stretch of chunk_size
\* characters or more without any separator, at a space only in such a
\* stretch without sentence or line break, at a full stop only in one
\* without line break, at a single line break only in one without
\* paragraph break.
C13_FiveLevels ==
    text_splitter.called =>
        /\ \A k \in 1..Len(text_splitter.chunks) :
              text_splitter.chunks[k].to - text_splitter.chunks[k].from <= SplitChunkSize
        /\ \A i \in CutOffsets :
              /\ CharAt(i) = "x" => NoBetterCut(i, {" ", ".", "\n"})
              /\ CharAt(i) = " " => NoBetterCut(i, {".", "\n"})
              /\ CharAt(i) = "." => NoBetterCut(i, {"\n"})
              /\ (/\ CharAt(i) = "\n"
                  /\ CharAt(i - 1) # "\n"
                  /\ (i + 1 < Len(text_splitter.text) => CharAt(i + 1) # "\n"))
                    => NoParagraphCut(i)

\* C13 witness: a text of words and spaces only, too long for one chunk,
\* was cut at a space and nowhere inside a word.
C13_Witness ==
    /\ text_splitter.called
    /\ Range(text_splitter.text) = {"x", " "}
    /\ Len(text_splitter.text) > SplitChunkSize
    /\ CutOffsets # {}
    /\ \A i \in CutOffsets : CharAt(i) = " "

\* C14: while a session lasts, a step changes chat_history in one of two
\* ways only: a run that answered a question appends one turn at its end,
\* the turns before it staying as they were and in their order; or Clear
\* Chat History, or a confirmed Clear All Data, empties it.
C14_ChatAppendOrClear ==
    [][(Has("chat_history") /\ "chat_history" \in DOMAIN session_state') =>
        LET before == session_state.chat_history
            after == session_state'.chat_history
        IN  \/ after = before
            \/ /\ RunOf("ask")
               /\ last'.outcome = "Answered"
               /\ Len(after) = Len(before) + 1
               /\ SubSeq(after, 1, Len(before)) = before
            \/ /\ after = <<>>
               /\ \/ RunOf("clear_chat")
                  \/ RunOf("clear") /\ last'.outcome = "Cleared"]_vars

\* C14 witness: a second turn was appended after the first.
C14_Witness ==
    /\ last.op = "ask"
    /\ last.outcome = "Answered"
    /\ Len(session_state.chat_history) = 2

\* This step is a run of main() other than a confirmed Clear All Data.
RunButClear == Idle /\ last'.op # "idle" /\ last'.outcome # "Cleared"

\* C15 (as claimed): no run of main() other than a confirmed Clear All Data
\* removes or changes a chunk of the index: every chunk the session's index
\* held, and every chunk the index directory held, is still there,
\* unchanged, after the run.
C15_ChunksOnlyGrow ==
    [][RunButClear =>
        /\ (Has("vector_store") /\ "vector_store" \in DOMAIN session_state')
              => Range(session_state.vector_store.chunks)
                    \subseteq Range(session_state'.vector_store.chunks)
        /\ disk.tag = "index"
              => /\ disk'.tag = "index"
                 /\ Range(disk.chunks) \subseteq Range(disk'.chunks)]_vars

----------------------------------------------------------------------------
\* The run that ends in the next state was a create_backup on a source
\* directory.
CreatedFromDir == result'.op = "create_backup" /\ local.source.kind = "dir"
NothingUploaded ==
    Cardinality(local.source.files) > 0 /\ result'.uploaded = {}
SidecarKey(backup_name, timestamp) ==
    <<"backups", backup_name, timestamp, MetadataName>>
SidecarOf(bkt, backup_name, timestamp) == bkt[SidecarKey(backup_name, timestamp)]
SidecarIsRight(sidecar) ==
    /\ sidecar.kind = "metadata"
    /\ sidecar.file_count = Cardinality(result'.uploaded)
    /\ sidecar.total_files = Cardinality(local.source.files)
    /\ sidecar.status \in {"completed", "partial"}
    /\ sidecar.status = "completed" <=> sidecar.file_count = sidecar.total_files
ReturnsAsClaimed ==
    IF NothingUploaded
    THEN /\ result'.ret.none
         /\ \A key \in (DOMAIN bucket') \ (DOMAIN bucket) : ~IsMetadataKey(key)
         /\ \A key \in (DOMAIN bucket) \cap (DOMAIN bucket') :
                IsMetadataKey(key) => bucket'[key] = bucket[key]
    ELSE result'.ret = Str(<<"backups", result'.backup_name, strftime(now)>>, FALSE)

\* C16 as stated: create_backup writes a sidecar with file_count = files
\* uploaded, total_files = files found and status 'completed' exactly when
\* the two are equal; with files found and none uploaded it returns None
\* and writes no sidecar, and otherwise, on a source directory, it returns
\* the backup prefix.
C16_SidecarAlwaysWritten ==
    [][CreatedFromDir =>
        /\ ReturnsAsClaimed
        /\ ~NothingUploaded =>
            /\ SidecarKey(result'.backup_name, strftime(now)) \in DOMAIN bucket'
            /\ SidecarIsRight(SidecarOf(bucket', result'.backup_name, strftime(now)))
      ]_vars

\* C16, amended: the same, but the sidecar is there only when its put
\* succeeded; when the put fails the prefix is returned all the same and
\* the bucket holds the sidecar it held before for that prefix, if any.
C16_SidecarWrittenUnlessPutFails ==
    [][CreatedFromDir =>
        /\ ReturnsAsClaimed
        /\ (~NothingUploaded /\ result'.sidecar_put) =>
            /\ SidecarKey(result'.backup_name, strftime(now)) \in DOMAIN bucket'
            /\ SidecarIsRight(SidecarOf(bucket', result'.backup_name, strftime(now)))
        /\ (~NothingUploaded /\ ~result'.sidecar_put) =>
            LET key == SidecarKey(result'.backup_name, strftime(now))
            IN  /\ key \in DOMAIN bucket' <=> key \in DOMAIN bucket
                /\ key \in DOMAIN bucket => bucket'[key] = bucket[key]
      ]_vars

\* A backup that uploaded some of the files and wrote a 'partial' sidecar.
C16_Witness ==
    /\ result.op = "create_backup"
    /\ ~result.ret.none
    /\ result.uploaded # {}
    /\ result.uploaded # local.source.files
    /\ SidecarKey(result.backup_name, strftime(now)) \in DOMAIN bucket
    /\ SidecarOf(bucket, result.backup_name, strftime(now)).status = "partial"


----------------------------------------------------------------------------
\* The backups that create_backup returned a prefix for and put an object
\* under: their name and timestamp.
BackupName(parts) == parts[2]
BackupStamp(parts) == parts[3]
NewestFirst(backups) ==
    \A i, j \in 1..Len(backups) :
        i < j => strptime(backups[i].timestamp) >= strptime(backups[j].timestamp)

\* C17: cleanup_old_backups(name, retention_days), its deletes not
\* failing, deletes every object of every backup of that name older than
\* retention_days, and no object of a younger backup or of another name.
C17_CleanupDeletesOld ==
    [][(result'.op = "cleanup_old_backups" /\ result'.deleteOk) =>
        \A key \in DOMAIN bucket :
            LET age == now - strptime(BackupStamp(key))
                limit == result'.retention_days * SecondsPerDay
                mine == BackupName(key) = result'.backup_name
            IN  /\ (mine /\ age > limit) => key \notin DOMAIN bucket'
                /\ (~mine \/ age < limit) => key \in DOMAIN bucket'
      ]_vars

\* C18: list_backups() and list_backups(name) return an entry with the
\* name, timestamp and prefix of every backup create_backup returned a
\* prefix for, newest timestamp first.
C18_CreatedBackupIsListed ==
    [][result'.op = "list_backups" =>
        /\ \A parts \in BackupsIn(bucket) :
            (result'.backup_name.none
                \/ result'.backup_name.name = BackupName(parts)) =>
                \E i \in 1..Len(result'.ret) :
                    /\ result'.ret[i].name = BackupName(parts)
                    /\ result'.ret[i].timestamp = BackupStamp(parts)
                    /\ result'.ret[i].prefix.parts = parts
        /\ NewestFirst(result'.ret)
      ]_vars

\* C19: main with --restore T, a backup of timestamp T being in the
\* bucket, finds it and, every download succeeding, writes each of its
\* files at its relative path under restore_dir and nothing for the
\* sidecar.
C19_RestoreRoundTrip ==
    [][(/\ result'.op = "main_restore"
        /\ \E parts \in BackupsIn(bucket) : BackupStamp(parts) = result'.timestamp) =>
        /\ result'.found
        /\ result'.successful = result'.total =>
            \E parts \in BackupsIn(bucket) :
                /\ BackupStamp(parts) = result'.timestamp
                /\ result'.written =
                    {SubSeq(key, 4, Len(key)) :
                        key \in {k \in DOMAIN bucket :
                                    SubSeq(k, 1, 3) = parts /\ ~IsMetadataKey(k)}}
                /\ \A path \in result'.written :
                    /\ path \in DOMAIN local'.restore
                    /\ local'.restore[path] = bucket[parts \o path]
      ]_vars

\* C20: restore_backup returns True only when every object under the
\* prefix other than the sidecar was downloaded, and False when a download
\* failed.
C20_TrueOnlyWhenAllRestored ==
    [][result'.op = "restore_backup" =>
        /\ result'.ret => result'.successful = result'.total
        /\ result'.successful < result'.total => ~result'.ret
      ]_vars


----------------------------------------------------------------------------
\* C21: after a migration of a directory in which every attempted upload
\* succeeded, verify_migration on the same directory and prefix returns
\* True; and it returns False whenever a file the migration was meant to
\* upload is missing from the bucket.
C21_VerifyFollowsMigration ==
    [][result'.op \in {"migrate", "verify"} =>
        /\ (result'.op = "migrate" /\ result'.successful = result'.total) =>
                result'.verification_ok
        /\ (\E f \in FilesToUpload(local.source, result'.category) :
                <<result'.category>> \o f \notin DOMAIN bucket') =>
                ~result'.verification_ok
      ]_vars

----------------------------------------------------------------------------
\* The run that ends in the next state was a scan in which every ingestion
\* that was attempted succeeded.
ScanAllSucceeded ==
    /\ Idle
    /\ last'.op = "scan"
    /\ ~last'.crashed
    /\ Len(last'.status) = Len(last'.batch)
    /\ \A k \in 1..Len(last'.status) : last'.status[k] \in {"ok", "skipped"}
HasChunksOf(store, pdf_path) ==
    \E k \in 1..Len(store.chunks) : store.chunks[k].full_path = pdf_path

\* C22: after a scan in which every attempted ingestion succeeds, the
\* index holds chunks of every PDF file under PDF_STORAGE_DIR, at any
\* depth.
C22_ScanProcessesAll ==
    [][ScanAllSucceeded =>
        \A pdf_path \in Rglob(pdfs) :
            HasChunksOf(session_state'.vector_store, pdf_path)]_vars

----------------------------------------------------------------------------
\* The chunks of the index the session holds and of the index directory.
MemoryChunks(ss) ==
    IF HasIn(ss, "vector_store") THEN ss.vector_store.chunks ELSE <<>>
DiskChunks(dsk) == IF dsk.tag = "index" THEN dsk.chunks ELSE <<>>
InStep(ss, dsk) == dsk.tag # "corrupt" /\ MemoryChunks(ss) = DiskChunks(dsk)

\* C23: a run of ingestions that starts with the session's index and the
\* index directory holding the same chunks, and whose calls all return,
\* ends with the two holding the same chunks, whether the ingestions
\* succeeded or failed.
C23_MemoryEqualsDisk ==
    [][(BatchRun /\ ~last'.crashed /\ Attempted(last') # {}
            /\ InStep(session_state, disk)) =>
        InStep(session_state', disk')]_vars

----------------------------------------------------------------------------
\* C24: the persisted index never holds the chunks of one document file
\* more than once: no two of its entries are the same chunk of the same
\* file.
C24_NoDuplicateChunksOnDisk ==
    \A i, j \in 1..Len(DiskChunks(disk)) :
        (/\ disk.chunks[i].full_path = disk.chunks[j].full_path
         /\ disk.chunks[i].chunk_id = disk.chunks[j].chunk_id) => i = j

----------------------------------------------------------------------------
\* The session loaded the persisted index when it started and has ingested
\* nothing since: it holds the chunks of the index directory and a QA
\* chain over them, and the page waits for the next event.
LoadedAtStart ==
    /\ Idle
    /\ Rendered
    /\ KeyCheckPasses(OPENAI_API_KEY)
    /\ session_state.processed_files = <<>>
    /\ TruthyStore(session_state.vector_store)
    /\ disk.tag = "index"
    /\ session_state.vector_store.chunks = disk.chunks
    /\ Has("qa_chain")
    /\ ChainUsable(session_state)
    /\ Len(session_state.chat_history) < MaxChat

\* C25: in a session that loaded a persisted index at its start a question
\* can be asked before any new document is ingested.
C25_LoadedIndexCanBeAsked == LoadedAtStart => ENABLED Ask

----------------------------------------------------------------------------
\* The index directory holds index files that the session failed to load
\* when it started: the session's index handle is None.
LoadHadFailed ==
    /\ Rendered
    /\ ~TruthyStore(session_state.vector_store)
    /\ disk.tag # "absent"

\* C26: after a failed load of the persisted index, no upload and no scan
\* of the same session replaces or deletes the index files.
C26_FailedLoadKeepsIndexFiles ==
    [][(BatchRun /\ LoadHadFailed) => disk' = disk]_vars

====
